---- MODULE Spec2Model ----
(***************************************************************************)
(* Model of bitsy-figurine.py: the support planner of Figurine             *)
(* (move_reachable_pixels, Figurine.iter_supports), the OpenSCAD text      *)
(* assembly (Figurine.openscad_code) and the worker pool of App.run.       *)
(***************************************************************************)
EXTENDS Integers, Sequences, FiniteSets, TLC

\* range(8) of the base seeding loop; sprite rows are 8 characters wide.
GridSize == 8

\* The pixel masks of Spec lie in columns FirstCol..LastCol and rows
\* 0..MaxRow of the grid and hold at most MaxPixels pixels.
FirstCol == 2
LastCol == 5
MaxRow == 3
MaxPixels == 4

\* App.images holds at most MaxImages images in SpecApp.
MaxImages == 3

\* Strings are sequences of character codes.
Newline == 10
Underscore == 95

VARIABLES
    image,             \* BitsyImage: the set of (x, y) that iter_pixels yields
    pc,                \* position inside Figurine.iter_supports
    unsupported,       \* local set of iter_supports
    supported_by_base, \* local set of iter_supports
    struts,            \* the tuples yielded so far, in yield order
    groups,            \* the value of the local `group` at each yield
    image_tag,         \* BitsyImage.tag
    name,              \* BitsyImage.name
    custom_text,       \* Figurine.custom_text, App.custom_text
    name_omission_list,
    codes,             \* the text of each write_openscad so far
    images,            \* App.images
    filters,           \* App.filters
    mesh,              \* whether numpy-stl was imported
    openscad_found,    \* whether the openscad executable exists
    rendered,          \* per image: whether openscad leaves an output file
    returned,          \* per image: what its visit_image task has returned
    results,           \* local list of App.run
    entries,           \* the lines Thumbnailer.write has written
    apppc              \* position inside App.run

figVars == <<image, pc, unsupported, supported_by_base, struts, groups>>

codeVars == <<image_tag, name, custom_text, name_omission_list, codes>>

appVars == <<images, filters, mesh, openscad_found, rendered, returned, results,
             entries, apppc>>

vars == <<figVars, codeVars, appVars>>

----------------------------------------------------------------------------
\* Small helpers

Abs(n) == IF n < 0 THEN -n ELSE n

Min2(a, b) == IF a <= b THEN a ELSE b

SetMin(S) == CHOOSE m \in S : \A z \in S : m <= z

SetMax(S) == CHOOSE m \in S : \A z \in S : m >= z

RECURSIVE Gcd(_, _)
Gcd(a, b) == IF b = 0 THEN a ELSE Gcd(b, a % b)

\* The window of the sprite grid the bounded masks draw from.
Cells == {<<x, y>> : x \in FirstCol..LastCol, y \in 0..MaxRow}

RECURSIVE SubsetsUpTo(_, _)
SubsetsUpTo(S, k) ==
    IF k = 0 THEN {{}}
    ELSE LET prev == SubsetsUpTo(S, k - 1)
         IN prev \cup {s \cup {c} : s \in prev, c \in S}

\* Every row of the grid is GridSize columns wide.
GridCells == {<<x, y>> : x \in 0..(GridSize - 1), y \in 0..MaxRow}

\* Up to MaxPixels pixels in the window, or half as many anywhere in the rows.
Masks == SubsetsUpTo(Cells, MaxPixels) \cup SubsetsUpTo(GridCells, MaxPixels \div 2)

----------------------------------------------------------------------------
\* move_reachable_pixels (recursive flood fill over two mutable sets)

\* Mutant of Offsets: 4-adjacency, the diagonal neighbours left out
OffsetsOrthogonal ==
    << <<-1, 0>>, <<0, -1>>, <<0, 0>>, <<0, 1>>, <<1, 0>> >>

\* (dx, dy) in the order of the two nested for loops
Offsets ==
    << <<-1, -1>>, <<-1, 0>>, <<-1, 1>>,
       <<0, -1>>,  <<0, 0>>,  <<0, 1>>,
       <<1, -1>>,  <<1, 0>>,  <<1, 1>> >>

\* Mutant of move_reachable_pixels: the pixel moves, its neighbours are not
\* followed
MoveOnly(from_set, to_set, xy) ==
    IF xy \in from_set
    THEN [from |-> from_set \ {xy}, to |-> to_set \cup {xy}]
    ELSE [from |-> from_set, to |-> to_set]

RECURSIVE move_reachable_pixels(_, _, _), MoveNeighbours(_, _, _)
move_reachable_pixels(from_set, to_set, xy) ==
    LET s == IF xy \in from_set
             THEN [from |-> from_set \ {xy}, to |-> to_set \cup {xy}]
             ELSE [from |-> from_set, to |-> to_set]
    IN MoveNeighbours(s, xy, 1)

MoveNeighbours(s, xy, i) ==
    IF i > Len(Offsets) THEN s
    ELSE LET nxy == <<xy[1] + Offsets[i][1], xy[2] + Offsets[i][2]>>
         IN IF nxy \in s.from
            THEN MoveNeighbours(move_reachable_pixels(s.from, s.to, nxy), xy, i + 1)
            ELSE MoveNeighbours(s, xy, i + 1)

\* Mutant of SeedLoop: the flood starts one row too low, at (x, -2)
RECURSIVE SeedLoopBelow(_, _)
SeedLoopBelow(s, x) ==
    IF x >= GridSize THEN s
    ELSE SeedLoopBelow(move_reachable_pixels(s.from, s.to, <<x, -2>>), x + 1)

\* for x in range(8): move_reachable_pixels(unsupported, supported_by_base, (x, -1))
RECURSIVE SeedLoop(_, _)
SeedLoop(s, x) ==
    IF x >= GridSize THEN s
    ELSE SeedLoop(move_reachable_pixels(s.from, s.to, <<x, -1>>), x + 1)

----------------------------------------------------------------------------
\* The body of the while loop of iter_supports, for one group

lowest_y(group) == SetMin({p[2] : p \in group})

\* center_x = sum(x) / len(group): a float, kept exact as num over den
ColumnSum(group) ==
    LET RECURSIVE Sum(_)
        Sum(S) == IF S = {} THEN 0
                  ELSE LET p == CHOOSE p \in S : TRUE IN p[1] + Sum(S \ {p})
    IN Sum(group)

center_x(group) ==
    [num |-> ColumnSum(group), den |-> Cardinality(group), float |-> TRUE]

lowest_x_list(group) == {p[1] : p \in {q \in group : q[2] = lowest_y(group)}}

\* int(v) and int(math.ceil(v)) of a non-negative number num/den
IntOf(v) == v.num \div v.den

CeilOf(v) == (v.num + v.den - 1) \div v.den

\* An integer column, as the int it is in the list
Whole(c) == [num |-> c, den |-> 1, float |-> FALSE]

\* Mutant of DistanceLess: a tie goes to the larger column
DistanceLessLate(c, x, z) ==
    LET dx == Abs(c.num - x * c.den)
        dz == Abs(c.num - z * c.den)
    IN dx < dz \/ (dx = dz /\ x > z)

\* (abs(center_x - x), x) < (abs(center_x - z), z), as sort() compares tuples
DistanceLess(c, x, z) ==
    LET dx == Abs(c.num - x * c.den)
        dz == Abs(c.num - z * c.den)
    IN dx < dz \/ (dx = dz /\ x < z)

ClosestColumn(c, xs) ==
    CHOOSE x \in xs : \A z \in xs \ {x} : DistanceLess(c, x, z)

\* Mutant of support_x: always the column under the truncated centre
SupportXFloor(group) == Whole(IntOf(center_x(group)))

support_x(group) ==
    LET c == center_x(group)
        xs == lowest_x_list(group)
    IN IF IntOf(c) \in xs /\ CeilOf(c) \in xs
       THEN c
       ELSE Whole(ClosestColumn(c, xs))

\* max((y for (x, y) in supported_by_base if x == col and y < low), default=0)
ColumnPeak(sbb, col, low) ==
    LET ys == {p[2] : p \in {q \in sbb : q[1] = col /\ q[2] < low}}
    IN IF ys = {} THEN 0 ELSE SetMax(ys)

\* Mutant of highest_supported: the higher of the two peaks
HighestSupportedMax(sbb, sx, low) ==
    LET l == ColumnPeak(sbb, IntOf(sx), low)
        r == ColumnPeak(sbb, CeilOf(sx), low)
    IN IF l >= r THEN l ELSE r

highest_supported(sbb, sx, low) ==
    Min2(ColumnPeak(sbb, IntOf(sx), low), ColumnPeak(sbb, CeilOf(sx), low))

\* The tuple yielded for a group: (support_x, highest_supported, height)
Strut(group, sbb) ==
    LET low == lowest_y(group)
        sx == support_x(group)
        hs == highest_supported(sbb, sx, low)
    IN <<sx, hs, low - hs>>

----------------------------------------------------------------------------
\* Figurine.iter_supports as a generator

\* Spec runs the generator alone: no labels, no App.
NoLabels ==
    /\ image_tag = <<>>
    /\ name = <<>>
    /\ custom_text = <<>>
    /\ name_omission_list = <<>>
    /\ codes = <<>>

NoApp ==
    /\ images = <<>>
    /\ filters = <<>>
    /\ mesh = FALSE
    /\ openscad_found = TRUE
    /\ rendered = <<>>
    /\ returned = <<>>
    /\ results = <<>>
    /\ entries = <<>>
    /\ apppc = "idle"

Init ==
    /\ image \in Masks
    /\ pc = "start"
    /\ unsupported = {}
    /\ supported_by_base = {}
    /\ struts = <<>>
    /\ groups = <<>>
    /\ NoLabels
    /\ NoApp

\* Lines 157-165: collect the pixels, then flood from the base row.
SeedBase ==
    /\ pc = "start"
    /\ LET s == SeedLoop([from |-> image, to |-> {}], 0)
       IN /\ unsupported' = s.from
          /\ supported_by_base' = s.to
    /\ pc' = "loop"
    /\ UNCHANGED <<image, struts, groups, codeVars, appVars>>

\* Mutant of NextGroup: the groups already given a strut count as supported
NextGroupSettled ==
    /\ pc = "loop"
    /\ unsupported # {}
    /\ \E xy \in unsupported :
          LET s == move_reachable_pixels(unsupported \ {xy}, {xy}, xy)
              settled == supported_by_base \cup UNION {groups[i] : i \in DOMAIN groups}
          IN /\ unsupported' = s.from
             /\ groups' = Append(groups, s.to)
             /\ struts' = Append(struts, Strut(s.to, settled))
    /\ UNCHANGED <<image, pc, supported_by_base, codeVars, appVars>>

\* Lines 168-202: one iteration of the while loop, up to its yield.
NextGroup ==
    /\ pc = "loop"
    /\ unsupported # {}
    /\ \E xy \in unsupported :
          LET s == move_reachable_pixels(unsupported \ {xy}, {xy}, xy)
          IN /\ unsupported' = s.from
             /\ groups' = Append(groups, s.to)
             /\ struts' = Append(struts, Strut(s.to, supported_by_base))
    /\ UNCHANGED <<image, pc, supported_by_base, codeVars, appVars>>

\* The while condition fails: the generator is exhausted.
Finish ==
    /\ pc = "loop"
    /\ unsupported = {}
    /\ pc' = "done"
    /\ UNCHANGED <<image, unsupported, supported_by_base, struts, groups, codeVars, appVars>>

Next == SeedBase \/ NextGroup \/ Finish

Spec == Init /\ [][Next]_vars

----------------------------------------------------------------------------
\* Figurine.openscad_code and what it formats

\* BitsyImage.iter_pixels: rows bottom-up (the lines reversed), columns left
\* to right
RECURSIVE iter_pixels(_)
iter_pixels(img) ==
    IF img = {} THEN <<>>
    ELSE LET first == CHOOSE p \in img : \A q \in img :
                          p[2] < q[2] \/ (p[2] = q[2] /\ p[1] <= q[1])
         IN <<first>> \o iter_pixels(img \ {first})

\* BitsyImage.xrange
xrange(img) ==
    IF img = {} THEN <<0, 0>>
    ELSE <<SetMin({p[1] : p \in img}), SetMax({p[1] : p \in img})>>

\* '%s' of a number: a float prints its value with a fraction part, an int bare
FormatNumber(v) ==
    IF v.float
    THEN LET g == Gcd(v.num, v.den)
         IN <<"float", v.num \div v.den, (v.num % v.den) \div g, v.den \div g>>
    ELSE <<"int", v.num>>

\* openscad_pixel % xy
openscad_pixel(xy) == <<"translate", <<"int", xy[1]>>, <<"int", xy[2]>>, "square">>

\* openscad_support % (support_x, highest_supported, height)
openscad_support(s) ==
    <<"translate", FormatNumber(s[1]), <<"int", s[2]>>, "square", <<"int", s[3]>>>>

\* openscad_str: str(chr(..),chr(..),...) over the ord of each character
openscad_str(s) == <<"str", [i \in DOMAIN s |-> <<"chr", s[i]>>]>>

\* s.split('\n')
RECURSIVE SplitLines(_)
SplitLines(s) ==
    IF \A i \in DOMAIN s : s[i] # Newline THEN <<s>>
    ELSE LET k == CHOOSE i \in DOMAIN s :
                      s[i] = Newline /\ \A j \in 1..(i - 1) : s[j] # Newline
         IN <<SubSeq(s, 1, k - 1)>> \o SplitLines(SubSeq(s, k + 1, Len(s)))

\* str.lower() of one ASCII character
LowerChar(c) == IF c >= 65 /\ c <= 90 THEN c + 32 ELSE c

\* n matches s at position i, ignoring case
MatchesAt(s, i, n) ==
    /\ i + Len(n) - 1 <= Len(s)
    /\ \A k \in DOMAIN n : LowerChar(s[i + k - 1]) = LowerChar(n[k])

\* Figurine.displayname: re.subn of the alternation of the (non-empty) names,
\* leftmost match first, the earliest alternative at each position
RECURSIVE RemoveNames(_, _, _)
RemoveNames(s, i, names) ==
    IF i > Len(s) THEN <<>>
    ELSE LET hits == {k \in DOMAIN names : MatchesAt(s, i, names[k])}
         IN IF hits = {}
            THEN <<s[i]>> \o RemoveNames(s, i + 1, names)
            ELSE RemoveNames(s, i + Len(names[SetMin(hits)]), names)

displayname == RemoveNames(name, 1, name_omission_list)

\* BitsyImage.tag: '%s_%s.%s.%d' % (name, blocktype, ident, index), for an
\* index below ten
ImageTag(n, blocktype, ident, index) ==
    n \o <<Underscore>> \o blocktype \o <<46>> \o ident \o <<46>> \o <<48 + index>>

\* Figurine.tag
tag ==
    IF custom_text # <<>> THEN image_tag \o <<Underscore>> \o custom_text
    ELSE image_tag

\* The values substituted into openscad_template; the template itself is fixed.
openscad_code ==
    LET pixels == [i \in DOMAIN iter_pixels(image) |-> openscad_pixel(iter_pixels(image)[i])]
        supports == [i \in DOMAIN struts |-> openscad_support(struts[i])]
        custom_text_lines == SplitLines(custom_text \o <<Newline, Newline>>)
    IN [xmin |-> xrange(image)[1],
        xmax |-> xrange(image)[2],
        pixels |-> pixels,
        supports |-> supports,
        num_pixels |-> Len(pixels),
        num_supports |-> Len(supports),
        displayname |-> openscad_str(displayname),
        custom_text_1 |-> openscad_str(custom_text_lines[1]),
        custom_text_2 |-> openscad_str(custom_text_lines[2]),
        tag |-> tag]

\* visit_image writes the script twice: write_png, then write_stl.
Writers == <<"write_png", "write_stl">>

\* The labels SpecCode draws from: "Hi", "Hi\nyo", the name "aBc" and the
\* omission lists (), ("b",), ("BC", "b").
CustomTexts == {<<>>, <<72, 105>>, <<72, 105, Newline, 121, 111>>}

Names == {<<97, 66, 99>>}

OmissionLists == {<<>>, << <<98>> >>, << <<66, 67>>, <<98>> >>}

InitCode ==
    /\ image \in SubsetsUpTo(GridCells, MaxPixels \div 2)
    /\ pc = "start"
    /\ unsupported = {}
    /\ supported_by_base = {}
    /\ struts = <<>>
    /\ groups = <<>>
    /\ name \in Names
    /\ image_tag = ImageTag(name, <<115, 112, 114, 105, 116, 101>>, <<65>>, 0)
    /\ custom_text \in CustomTexts
    /\ name_omission_list \in OmissionLists
    /\ codes = <<>>
    /\ NoApp

\* Figurine.write_openscad, once list(self.iter_supports()) is complete: the
\* text is built and written; the next writer starts a fresh generator.
WriteOpenscad ==
    /\ pc = "done"
    /\ Len(codes) < Len(Writers)
    /\ codes' = Append(codes, openscad_code)
    /\ pc' = IF Len(codes) + 1 < Len(Writers) THEN "start" ELSE "written"
    /\ unsupported' = {}
    /\ supported_by_base' = {}
    /\ struts' = <<>>
    /\ groups' = <<>>
    /\ UNCHANGED <<image, image_tag, name, custom_text, name_omission_list, appVars>>

NextCode == SeedBase \/ NextGroup \/ Finish \/ WriteOpenscad

SpecCode == InitCode /\ [][NextCode]_vars

----------------------------------------------------------------------------
\* App.run: the worker pool, the index

\* Figurine._filename_for_string: lower(), every character outside
\* [a-zA-Z0-9.-_] becomes '_', runs of '_' collapse to one, ext is appended
FilenameChar(c) ==
    LET l == LowerChar(c)
    IN IF (l >= 97 /\ l <= 122) \/ (l >= 48 /\ l <= 57) \/ l \in {45, 46, Underscore}
       THEN l ELSE Underscore

RECURSIVE CollapseUnderscores(_)
CollapseUnderscores(s) ==
    IF Len(s) <= 1 THEN s
    ELSE IF s[1] = Underscore /\ s[2] = Underscore
         THEN CollapseUnderscores(Tail(s))
         ELSE <<s[1]>> \o CollapseUnderscores(Tail(s))

filename_for_string(s, ext) ==
    CollapseUnderscores([i \in DOMAIN s |-> FilenameChar(s[i])]) \o ext

\* Figurine.tag for an image of App.images
FigTag(img) ==
    IF custom_text # <<>> THEN img.tag \o <<Underscore>> \o custom_text
    ELSE img.tag

\* tag.find(f) >= 0
Contains(s, f) ==
    \E i \in 1..(Len(s) - Len(f) + 1) : SubSeq(s, i, i + Len(f) - 1) = f

\* App._filter_test
filter_test(img) ==
    IF img.empty THEN FALSE
    ELSE IF filters = <<>> THEN TRUE
    ELSE \E k \in DOMAIN filters : Contains(img.tag, filters[k])

\* The (png, stl, tag) that visit_image returns; every path lies in the same
\* output directory, left out here
Record(img) ==
    <<filename_for_string(img.tag, <<46, 112, 110, 103>>),
      filename_for_string(FigTag(img), <<46, 115, 116, 108>>),
      FigTag(img)>>

\* App.visit_image for image i. A missing executable makes subprocess.run
\* raise in write_png; an openscad that leaves no .stl makes
\* mesh.Mesh.from_file raise in write_stl when numpy-stl is there; an exit
\* status alone raises nothing (no check=True).
visit_image(i) ==
    IF ~filter_test(images[i]) THEN [kind |-> "none"]
    ELSE IF ~openscad_found THEN [kind |-> "raised"]
    ELSE IF mesh /\ ~rendered[i] THEN [kind |-> "raised"]
    ELSE [kind |-> "record", value |-> Record(images[i])]

\* Python's order on strings and on tuples of strings
RECURSIVE StringLess(_, _)
StringLess(a, b) ==
    IF b = <<>> THEN FALSE
    ELSE IF a = <<>> THEN TRUE
    ELSE IF a[1] # b[1] THEN a[1] < b[1]
    ELSE StringLess(Tail(a), Tail(b))

RecordLess(r, s) ==
    \/ StringLess(r[1], s[1])
    \/ r[1] = s[1] /\ StringLess(r[2], s[2])
    \/ r[1] = s[1] /\ r[2] = s[2] /\ StringLess(r[3], s[3])

\* list.sort(): insertion of each element after the ones not greater than it
RECURSIVE Insert(_, _)
Insert(r, sorted) ==
    IF sorted = <<>> THEN <<r>>
    ELSE IF RecordLess(r, sorted[1]) THEN <<r>> \o sorted
    ELSE <<sorted[1]>> \o Insert(r, Tail(sorted))

RECURSIVE Sort(_)
Sort(s) == IF s = <<>> THEN <<>> ELSE Insert(s[Len(s)], Sort(SubSeq(s, 1, Len(s) - 1)))

\* [r for r in results if r], over what map() returns in the order of images
RECURSIVE Truthy(_)
Truthy(rs) ==
    IF rs = <<>> THEN <<>>
    ELSE IF rs[1].kind = "record" THEN <<rs[1].value>> \o Truthy(Tail(rs))
    ELSE Truthy(Tail(rs))

\* Thumbnailer.write(img_file, link_file, name); html.escape changes none of
\* the characters used here
ThumbLine(r) == [href |-> r[2], title |-> r[3], src |-> r[1]]

\* The images SpecApp draws from: tags "a", "B", "a!" and an empty image "c"
ImageChoices ==
    {[tag |-> <<97>>, empty |-> FALSE],
     [tag |-> <<66>>, empty |-> FALSE],
     [tag |-> <<97, 33>>, empty |-> FALSE],
     [tag |-> <<99>>, empty |-> TRUE]}

FilterChoices == {<<>>, << <<97>> >>}

InitApp ==
    /\ \E n \in 1..MaxImages :
          /\ images \in [1..n -> ImageChoices]
          /\ rendered \in [1..n -> BOOLEAN]
          /\ returned = [i \in 1..n |-> [kind |-> "pending"]]
    /\ filters \in FilterChoices
    /\ custom_text \in {<<>>, <<120>>}
    /\ mesh \in BOOLEAN
    /\ openscad_found \in BOOLEAN
    /\ results = <<>>
    /\ entries = <<>>
    /\ apppc = "map"
    /\ image = {}
    /\ pc = "idle"
    /\ unsupported = {}
    /\ supported_by_base = {}
    /\ struts = <<>>
    /\ groups = <<>>
    /\ image_tag = <<>>
    /\ name = <<>>
    /\ name_omission_list = <<>>
    /\ codes = <<>>

\* A worker finishes visit_image for one image; the workers finish in any
\* order (a chunk is one image for a list this short).
TaskDone ==
    /\ apppc = "map"
    /\ \E i \in DOMAIN returned :
          /\ returned[i].kind = "pending"
          /\ returned' = [returned EXCEPT ![i] = visit_image(i)]
    /\ UNCHANGED <<figVars, codeVars, images, filters, mesh, openscad_found,
                   rendered, results, entries, apppc>>

\* Pool.map returns once every task is done and none raised: lines 412-414.
MapReturn ==
    /\ apppc = "map"
    /\ \A i \in DOMAIN returned : returned[i].kind \in {"none", "record"}
    /\ results' = Sort(Truthy(returned))
    /\ apppc' = "write"
    /\ UNCHANGED <<figVars, codeVars, images, filters, mesh, openscad_found,
                   rendered, returned, entries>>

\* Pool.map re-raises a task's exception once every task is done; run() has
\* no handler, so the exception leaves run() before any thumb.write.
MapRaise ==
    /\ apppc = "map"
    /\ \A i \in DOMAIN returned : returned[i].kind # "pending"
    /\ \E i \in DOMAIN returned : returned[i].kind = "raised"
    /\ apppc' = "aborted"
    /\ UNCHANGED <<figVars, codeVars, images, filters, mesh, openscad_found,
                   rendered, returned, results, entries>>

\* Lines 415-417: one iteration of the for loop.
WriteEntry ==
    /\ apppc = "write"
    /\ Len(entries) < Len(results)
    /\ entries' = Append(entries, ThumbLine(results[Len(entries) + 1]))
    /\ UNCHANGED <<figVars, codeVars, images, filters, mesh, openscad_found,
                   rendered, returned, results, apppc>>

\* Line 418: thumb.close()
CloseIndex ==
    /\ apppc = "write"
    /\ Len(entries) = Len(results)
    /\ apppc' = "closed"
    /\ UNCHANGED <<figVars, codeVars, images, filters, mesh, openscad_found,
                   rendered, returned, results, entries>>

NextApp == TaskDone \/ MapReturn \/ MapRaise \/ WriteEntry \/ CloseIndex

SpecApp == InitApp /\ [][NextApp]_vars

----------------------------------------------------------------------------
\* What the claims speak of, stated without the planner's own operators

Adjacent(p, q) == p # q /\ Abs(p[1] - q[1]) <= 1 /\ Abs(p[2] - q[2]) <= 1

\* The virtual base row: row -1, columns 0..7
BaseRow == {<<x, -1>> : x \in 0..(GridSize - 1)}

\* The cells of M joined to S by chains of 8-adjacent cells of M, with S
RECURSIVE Reach(_, _)
Reach(S, M) ==
    LET N == {p \in M \ S : \E q \in S : Adjacent(p, q)}
    IN IF N = {} THEN S ELSE Reach(S \cup N, M)

BaseConnected(M) == Reach(BaseRow, M) \ BaseRow

Floating(M) == M \ BaseConnected(M)

\* The maximal 8-connected components of U
Components(U) == {Reach({p}, U) : p \in U}

SeqRange(s) == {s[i] : i \in DOMAIN s}

LowestRow(g) == CHOOSE r \in {p[2] : p \in g} : \A p \in g : r <= p[2]

LowestColumns(g) == {p[1] : p \in {q \in g : q[2] = LowestRow(g)}}

\* floor and ceiling of the number v = num/den, den > 0
Floor(v) == CHOOSE k \in -1..GridSize : k * v.den <= v.num /\ v.num < (k + 1) * v.den

Ceiling(v) == CHOOSE k \in -1..GridSize : (k - 1) * v.den < v.num /\ v.num <= k * v.den

\* v and w are the same number
SameNumber(v, w) == v.num * w.den = w.num * v.den

\* The mean of the columns of g, unrounded
Mean(g) ==
    LET RECURSIVE Total(_)
        Total(S) == IF S = {} THEN 0
                    ELSE LET p == CHOOSE p \in S : TRUE IN p[1] + Total(S \ {p})
    IN [num |-> Total(g), den |-> Cardinality(g)]

\* |c - x| * c.den for a column x
Distance(c, x) == Abs(c.num - x * c.den)

\* C1: once iter_supports is exhausted, every mask pixel is joined to the
\* base row by chains of 8-adjacent mask pixels and strut links, a strut
\* linking its group's lowest-row pixels at the columns floor(x), ceil(x) to
\* the pedestal (baseTop = 0, no pixel there) or to the mask pixels at row
\* baseTop in those columns.
StrutColumns(s) == {Floor(s[1]), Ceiling(s[1])}

StrutTop(i) ==
    {p \in groups[i] : p[2] = LowestRow(groups[i]) /\ p[1] \in StrutColumns(struts[i])}

StrutFoot(i) ==
    {p \in image : p[2] = struts[i][2] /\ p[1] \in StrutColumns(struts[i])}

OnPedestal(i) == struts[i][2] = 0 /\ StrutFoot(i) = {}

RECURSIVE Bridged(_)
Bridged(S) ==
    LET near == {p \in image \ S : \E q \in S : Adjacent(p, q)}
        held == UNION {StrutTop(i) : i \in {j \in DOMAIN struts :
                          OnPedestal(j) \/ StrutFoot(j) \cap S # {}}}
        N == (near \cup held) \ S
    IN IF N = {} THEN S ELSE Bridged(S \cup N)

C1_AllConnected == pc = "done" => image \subseteq Bridged(BaseRow)

C1_Witness ==
    /\ pc = "done"
    /\ Len(struts) >= 2
    /\ \E i \in DOMAIN struts : struts[i][2] > 0
    /\ \E i \in DOMAIN struts : OnPedestal(i)

\* C2: the number of struts yielded equals the number of maximal 8-connected
\* components of the mask pixels not reachable from the base row.
C2_StrutCount ==
    pc = "done" => Len(struts) = Cardinality(Components(Floating(image)))

C2_Witness ==
    /\ pc = "done"
    /\ Len(struts) = 2
    /\ supported_by_base # {}
    /\ \E i \in DOMAIN groups : Cardinality(groups[i]) >= 2

\* C3: the set of struts produced depends on the mask alone, not on the order
\* in which pop() hands out the unsupported pixels.
C3_OrderIndependent ==
    pc = "done" =>
        SeqRange(struts) =
            {Strut(g, BaseConnected(image)) : g \in Components(Floating(image))}

C3_Witness ==
    /\ pc = "done"
    /\ Len(struts) >= 3
    /\ struts[1][1].num * struts[2][1].den > struts[2][1].num * struts[1][1].den
    /\ struts[2][1].num * struts[3][1].den < struts[3][1].num * struts[2][1].den

\* C4: after the seeding loop supported_by_base is the set of pixels reachable
\* from the base row and unsupported the rest; every group collected is a
\* non-empty maximal 8-connected component of that rest; supported_by_base,
\* the groups and what is left of unsupported are pairwise disjoint and
\* together the whole mask.
C4_Partition ==
    pc \in {"loop", "done"} =>
        /\ supported_by_base = BaseConnected(image)
        /\ (groups = <<>> => unsupported = Floating(image))
        /\ \A i \in DOMAIN groups :
              /\ groups[i] # {}
              /\ groups[i] = Reach({CHOOSE p \in groups[i] : TRUE}, Floating(image))
              /\ groups[i] \cap supported_by_base = {}
              /\ groups[i] \cap unsupported = {}
              /\ \A j \in DOMAIN groups : i # j => groups[i] \cap groups[j] = {}
        /\ supported_by_base \cap unsupported = {}
        /\ supported_by_base \cup unsupported \cup UNION SeqRange(groups) = image
        /\ (pc = "done" => supported_by_base \cup UNION SeqRange(groups) = image)

C4_Witness ==
    /\ pc = "done"
    /\ Len(groups) >= 2
    /\ supported_by_base # {}
    /\ \E i \in DOMAIN groups : \E p, q \in groups[i] : p[1] # q[1] /\ p[2] # q[2]

\* C5: x is the mean column when floor and ceiling of the mean are both
\* lowest-row columns; otherwise the lowest-row column nearest to the mean,
\* the smaller column on a tie.
Placed(x, g) ==
    LET c == Mean(g)
        cols == LowestColumns(g)
    IN IF Floor(c) \in cols /\ Ceiling(c) \in cols
       THEN SameNumber(x, c)
       ELSE \E col \in cols :
               /\ SameNumber(x, [num |-> col, den |-> 1])
               /\ \A z \in cols :
                     \/ Distance(c, col) < Distance(c, z)
                     \/ Distance(c, col) = Distance(c, z) /\ col <= z

C5_Placement ==
    \A i \in DOMAIN struts : Placed(struts[i][1], groups[i])

\* lowestColumns = {2, 5}, centerX = 3.5: the tie goes to column 2
C5_Witness ==
    \E i \in DOMAIN struts :
        /\ LowestColumns(groups[i]) = {2, 5}
        /\ SameNumber(Mean(groups[i]), [num |-> 7, den |-> 2])
        /\ SameNumber(struts[i][1], [num |-> 2, den |-> 1])

\* C6: baseTop is the lower of the two peaks under floor(x) and ceil(x), a
\* peak being the highest row below lowestRow with a base-connected pixel in
\* the column (0 when there is none); height is lowestRow - baseTop.
Peak(based, col, low) ==
    LET rows == {r \in 0..(low - 1) : <<col, r>> \in based}
    IN IF rows = {} THEN 0 ELSE CHOOSE r \in rows : \A z \in rows : z <= r

Lower(a, b) == CHOOSE m \in {a, b} : m <= a /\ m <= b

C6_BaseTop ==
    LET based == BaseConnected(image)
    IN \A i \in DOMAIN struts :
          LET low == LowestRow(groups[i])
              x == struts[i][1]
          IN /\ struts[i][2] =
                   Lower(Peak(based, Floor(x), low), Peak(based, Ceiling(x), low))
             /\ struts[i][3] = low - struts[i][2]

\* a bridging strut whose two columns have different peaks
C6_Witness ==
    /\ \E i \in DOMAIN struts :
          /\ Floor(struts[i][1]) # Ceiling(struts[i][1])
          /\ Peak(supported_by_base, Floor(struts[i][1]), LowestRow(groups[i]))
                # Peak(supported_by_base, Ceiling(struts[i][1]), LowestRow(groups[i]))

\* C10: every strut has 0 <= baseTop < lowestRow and height >= 1.
C10_PositiveHeight ==
    \A i \in DOMAIN struts :
        /\ 0 <= struts[i][2]
        /\ struts[i][2] < LowestRow(groups[i])
        /\ struts[i][3] >= 1

C10_Witness ==
    \E i \in DOMAIN struts :
        /\ LowestRow(groups[i]) = 1
        /\ struts[i][3] = 1
        /\ \E p \in supported_by_base : p[2] = 0

\* C7: for identical inputs every evaluation of openscad_code yields the same
\* text, with the same pixel lines and the same support lines in the same
\* order, whatever order pop() hands the unsupported pixels out in.
C7_SameText ==
    \A i, j \in DOMAIN codes : codes[i] = codes[j]

\* C8: when the render of one sprite fails, every other sprite's (png, stl,
\* tag) still reaches the index.
C8_FailureConfined ==
    apppc \in {"closed", "aborted"} =>
        \A i \in DOMAIN returned :
            returned[i].kind = "record" =>
                \E k \in DOMAIN entries : entries[k] = ThumbLine(returned[i].value)

\* C9: the entries are written only after every worker has finished, in
\* ascending order of the records, and when run() ends there is exactly one
\* entry for every non-empty image that passes the filter.
PassingRecords ==
    LET RECURSIVE Pick(_)
        Pick(i) == IF i > Len(images) THEN <<>>
                   ELSE IF filter_test(images[i])
                        THEN <<Record(images[i])>> \o Pick(i + 1)
                        ELSE Pick(i + 1)
    IN Pick(1)

C9_IndexSortedComplete ==
    /\ entries # <<>> => \A i \in DOMAIN returned : returned[i].kind # "pending"
    /\ \A k \in 1..(Len(entries) - 1) :
          ~RecordLess(<<entries[k + 1].src, entries[k + 1].href, entries[k + 1].title>>,
                      <<entries[k].src, entries[k].href, entries[k].title>>)
    /\ apppc \in {"closed", "aborted"} =>
          entries = [k \in DOMAIN Sort(PassingRecords) |-> ThumbLine(Sort(PassingRecords)[k])]

====
